---- MODULE Spec2Model ----
(***************************************************************************)
(* Verification model of esp32-domination-airsoft.                         *)
(*                                                                         *)
(*   Spec     GameState (src/src/app/game.rs) driven through its public    *)
(*            methods start / stop / button_press / tick / winner under a  *)
(*            monotonic clock.                                             *)
(*   SpecApp  the App-level handlers of src/src/app/mod.rs (the start_game *)
(*            command closure, App::team_press, the owner loop's tick)     *)
(*            over the App's GameState and the audio command channel of    *)
(*            src/src/hardware/bt.rs.                                      *)
(*   SpecActor         the command bus of src/src/app/mod.rs: producer     *)
(*            threads calling AppBus::command / query / command_no_wait,   *)
(*            the mpsc queue, the owner loop App::run and the one-shot     *)
(*            reply channels.                                              *)
(*   SpecActorCallers  SpecActor with every recv_timeout fair (it returns  *)
(*            within its 5 s) and an owner that may stall.                 *)
(*   SpecActorLive     SpecActor with a fair owner loop and producers that *)
(*            may call command_no_wait without end.                        *)
(*   SpecAudio         the audio pipeline of src/src/hardware/bt.rs:       *)
(*            threads calling play_audio, the command channel, the worker  *)
(*            of spawn_audio_task, the ring buffer and the A2DP source     *)
(*            data callback.                                               *)
(*   SpecEvents        the event-driven owner loop of src/src/app.rs       *)
(*            (StartGame, EndGame, ButtonPress events).                    *)
(*   SpecAudioCallers  the play_audio callers and the worker with no sink  *)
(*            connected and a payload longer than the ring buffer; the     *)
(*            callers are fair, the worker may stall.                      *)
(*   SpecAudioWorkerFair  SpecAudioCallers with a fair worker.             *)
(*   SpecActorOwnerFair   SpecActor with a fair owner loop.                *)
(*   SpecActorSelf     SpecActor where the owner thread itself may call    *)
(*            command / query, from the routine or from an action.         *)
(*   SpecButton        the debounced InputButton of src/src/buttons.rs:    *)
(*            falling edges, is_pressed and a millisecond clock.           *)
(*                                                                         *)
(* Durations and instants are whole seconds, whole milliseconds for the     *)
(* button.  Option<T> is a sequence of length 0 (None) or 1 (Some).        *)
(***************************************************************************)
EXTENDS Integers, Sequences, FiniteSets, TLC

\* ------------------------------------------------------------------ bounds

\* Last instant the monotonic clock reaches under Spec.
MaxTime == 21

\* Last instant the monotonic clock reaches under SpecApp.
MaxAppTime == 3

\* Most play requests waiting in the audio command channel under SpecApp.
MaxAudioQueue == 2

\* Producer threads (button pollers, network handlers) using the bus.
NumProducers == 2

\* Most events waiting in the App's mpsc queue.
MaxQueue == 2

\* Most submissions whose order is recorded.
MaxCalls == 2

\* Threads that call play_audio.
NumPlayers == 2

\* Most play_audio calls made under SpecAudio.
MaxPlays == 2

\* Most Stop commands sent under SpecAudio.
MaxStops == 1

\* Most source data callbacks under SpecAudio.
MaxReads == 2

\* Largest debounce_ms a button is built with, and the last millisecond of the
\* button clock.
MaxDebounce == 3

MaxButtonTime == 7

\* ------------------------------------------------------- program constants

\* const CHUNK of spawn_audio_task.
CHUNK == 512

\* const PREFILL of spawn_audio_task.
PREFILL == 4096

\* xRingbufferCreate(64 * 1024, RINGBUF_TYPE_BYTEBUF).
RingCapacity == 65536

\* Duration::from_secs(10) of the StartGame handler.
EventTimeToWin == 10

\* Duration::from_secs(10) of GameState::default().
DefaultTimeToWin == 10

\* --------------------------------------------------------------- data types

None == << >>

Some(x) == << x >>

IsSome(o) == Len(o) = 1

Unwrap(o) == o[1]

Red == "Red"

Blue == "Blue"

Team == {Red, Blue}

VARIABLES
    current_game,     \* App.current_game : GameState
    now,              \* the monotonic clock read by Instant::now()
    audio_gen,        \* static AUDIO_GEN : AtomicU32
    audio_cmd_queue,  \* the mpsc channel behind BluetoothAudio.audio_cmd_tx
    app_queue,        \* the mpsc channel App.sender -> App.receiver
    receiver_alive,   \* App.receiver exists (the owner has not gone)
    loop_pc,          \* where the owner loop App::run stands
    callers,          \* per producer thread: its blocking call and reply channel
    next_id,          \* history: identity of the next submission
    enqueued,         \* history: events in the order they were sent
    executed,         \* history: events in the order the owner ran them
    bus_op,           \* history: the bus step that produced this state
    worker_pc,        \* where the audio worker thread stands
    worker_data,      \* the payload `data` of the Play being handled
    my_gen,           \* the worker's local my_gen
    offset,           \* the worker's local offset
    ring_len,         \* bytes held by BluetoothAudio.ring_buf
    ring_prev,        \* of those, bytes written before the command now handled was dequeued
    play_calls,       \* per calling thread: its play_audio call in progress
    issued,           \* history: per queued command, the generation its call assigned
    worker_issued,    \* history: that generation, for the command being handled
    stale_chunks,     \* history: chunks of this payload written after a bump during its stream
    writes,           \* history: the ring buffer writes made for this payload
    plays_started,    \* history: play_audio calls begun
    stops_sent,       \* history: Stop commands sent
    reads_done,       \* history: source data callbacks served
    audio_op,         \* history: the audio step that produced this state
    sink_out,         \* history: what the last source data callback produced
    ev_running,       \* the event loop of src/src/app.rs is still receiving
    button,           \* an InputButton: pressed, last_press_ms, debounce_ms
    now_ms,           \* esp_timer_get_time() / 1000
    button_op,        \* history: the button step that produced this state
    last_op,          \* history: the operation that produced this state
    pre,              \* history: current_game before that operation
    owned_elapsed     \* history: clock time since start() spent with an owner set

gameVars == << current_game, now >>

audioVars == << audio_gen, audio_cmd_queue >>

histVars == << last_op, pre, owned_elapsed >>

actorVars == << app_queue, receiver_alive, loop_pc, callers, next_id, enqueued, executed, bus_op >>

workerVars == << worker_pc, worker_data, my_gen, offset, ring_len, ring_prev, play_calls, issued,
                 worker_issued, stale_chunks, writes, plays_started, stops_sent, reads_done,
                 audio_op, sink_out >>

eventVars == << ev_running >>

buttonVars == << button, now_ms, button_op >>

vars == << current_game, now, audio_gen, audio_cmd_queue, app_queue, receiver_alive, loop_pc,
           callers, next_id, enqueued, executed, bus_op, worker_pc, worker_data, my_gen,
           offset, ring_len, ring_prev, play_calls, issued, worker_issued, stale_chunks, writes,
           plays_started, stops_sent, reads_done, audio_op, sink_out, ev_running,
           button, now_ms, button_op, last_op, pre, owned_elapsed >>

\* ---------------------------------------------------------------- GameState

new(time_to_win) ==
    [ active         |-> FALSE,
      current_team   |-> None,
      last_tick      |-> None,
      team_red_time  |-> 0,
      team_blue_time |-> 0,
      time_to_win    |-> time_to_win ]

Default == new(DefaultTimeToWin)

active(g) == g.active

start_resumes(g, t) ==
    IF g.active THEN g
    ELSE [ g EXCEPT !.active         = TRUE,
                    !.current_team   = None,
                    !.last_tick      = Some(t),
                    !.team_red_time  = 0,
                    !.team_blue_time = 0 ]

start(g, t) ==
    [ g EXCEPT !.active         = TRUE,
               !.current_team   = None,
               !.last_tick      = Some(t),
               !.team_red_time  = 0,
               !.team_blue_time = 0 ]

\* Instant::duration_since saturates at zero.
duration_since(t, earlier) == IF t >= earlier THEN t - earlier ELSE 0

tick_keeps_baseline(g, t) ==
    IF ~g.active THEN g
    ELSE IF ~IsSome(g.last_tick) THEN [ g EXCEPT !.last_tick = Some(t) ]
    ELSE IF ~IsSome(g.current_team) THEN g
    ELSE LET delta == duration_since(t, Unwrap(g.last_tick))
         IN  IF Unwrap(g.current_team) = Blue
             THEN [ g EXCEPT !.team_blue_time = @ + delta, !.last_tick = Some(t) ]
             ELSE [ g EXCEPT !.team_red_time  = @ + delta, !.last_tick = Some(t) ]

tick(g, t) ==
    IF ~g.active THEN g
    ELSE IF ~IsSome(g.last_tick) THEN [ g EXCEPT !.last_tick = Some(t) ]
    ELSE LET delta == duration_since(t, Unwrap(g.last_tick))
             credited ==
                 IF ~IsSome(g.current_team) THEN g
                 ELSE IF Unwrap(g.current_team) = Blue
                 THEN [ g EXCEPT !.team_blue_time = @ + delta ]
                 ELSE [ g EXCEPT !.team_red_time  = @ + delta ]
         IN  [ credited EXCEPT !.last_tick = Some(t) ]

stop_only_flushes(g, t) == tick(g, t)

stop_without_flush(g, t) ==
    [ g EXCEPT !.active = FALSE, !.current_team = None, !.last_tick = None ]

stop_keeps_last_tick(g, t) ==
    [ tick(g, t) EXCEPT !.active = FALSE, !.current_team = None ]

stop_clears_scores(g, t) ==
    [ tick(g, t) EXCEPT !.active = FALSE, !.current_team = None, !.last_tick = None,
                        !.team_red_time = 0, !.team_blue_time = 0 ]

stop(g, t) ==
    [ tick(g, t) EXCEPT !.active = FALSE, !.current_team = None, !.last_tick = None ]

button_press_owner_first(g, team, t) ==
    IF ~g.active THEN g
    ELSE tick([ g EXCEPT !.current_team = Some(team) ], t)

button_press_unguarded(g, team, t) ==
    [ tick(g, t) EXCEPT !.current_team = Some(team) ]

button_press(g, team, t) ==
    IF ~g.active THEN g
    ELSE [ tick(g, t) EXCEPT !.current_team = Some(team) ]

winner_red_first(g) ==
    IF g.team_red_time >= g.time_to_win THEN Some(Blue)
    ELSE IF g.team_blue_time >= g.time_to_win THEN Some(Red)
    ELSE None

winner_blue_only(g) ==
    IF g.team_blue_time >= g.time_to_win THEN Some(Red)
    ELSE None

winner_strict(g) ==
    IF g.team_blue_time > g.time_to_win THEN Some(Red)
    ELSE IF g.team_red_time > g.time_to_win THEN Some(Blue)
    ELSE None

winner_exact(g) ==
    IF g.team_blue_time = g.time_to_win THEN Some(Red)
    ELSE IF g.team_red_time = g.time_to_win THEN Some(Blue)
    ELSE None

winner(g) ==
    IF g.team_blue_time >= g.time_to_win THEN Some(Red)
    ELSE IF g.team_red_time >= g.time_to_win THEN Some(Blue)
    ELSE None

\* GameState::scores of src/src/app/game.rs: the struct Scores { red, blue }.
scores(g) == [ red |-> g.team_red_time, blue |-> g.team_blue_time ]

\* GameState::scores of the older copy of GameState in src/src/app.rs: a pair.
scores_pair(g) == << g.team_blue_time, g.team_red_time >>

\* ------------------------------------------------------------ history record

Op(name, team, ret) == [ op |-> name, team |-> team, ret |-> ret ]

BusOp(name, caller, id, act, alive, stale, queued) ==
    [ op |-> name, caller |-> caller, id |-> id, act |-> act,
      alive |-> alive, stale |-> stale, queued |-> queued ]

Producers == 1..NumProducers

\* The thread that runs App::run, when it calls the bus itself.
OwnerThread == NumProducers + 1

Threads == Producers \cup { OwnerThread }

\* op: the step; th: the calling thread (0: worker or sink); gen: AUDIO_GEN
\* before the step; streaming: the worker was in its STREAM loop before it.
AudioOp(name, th, gen, streaming) ==
    [ op |-> name, th |-> th, gen |-> gen, streaming |-> streaming ]

Players == 1..NumPlayers

\* A thread outside play_audio, or between its fetch_add and its send.
IdlePlayer == [ pc |-> "idle", data |-> None, gen |-> 0 ]

\* A producer thread: idle, or blocked in recv_timeout on the reply channel of
\* call `id`; `reply` is the value sent into that channel, `tx_dropped` tells
\* that its sending half was dropped unused, `ret` is what the last call returned.
IdleCaller == [ pc |-> "idle", id |-> 0, reply |-> None, tx_dropped |-> FALSE, ret |-> None ]

\* No InputButton has been constructed yet.
NoButton == [ state |-> "none", pressed |-> FALSE, last_press_ms |-> 0, debounce_ms |-> 0 ]

\* No falling edge has been handled yet.
NoEdge == [ at |-> None, accepted |-> FALSE, unread |-> FALSE ]

\* op: the step; accepted: the edge set the flag and ran the callback;
\* was_set: the flag before the step; returned: what is_pressed returned;
\* seen: the time and outcome of the last edge handled, and whether the flag
\* has been set since is_pressed last ran.
ButtonOp(name, accepted, was_set, returned, seen) ==
    [ op |-> name, accepted |-> accepted, was_set |-> was_set, returned |-> returned,
      prev |-> button_op.seen, seen |-> seen ]

\* ---------------------------------------------------------------- initially

Init ==
    /\ current_game = Default
    /\ now = 0
    /\ audio_gen = 0
    /\ audio_cmd_queue = << >>
    /\ app_queue = << >>
    /\ receiver_alive = TRUE
    /\ loop_pc = "tick"
    /\ callers = [ p \in Threads |-> IdleCaller ]
    /\ next_id = 1
    /\ enqueued = << >>
    /\ executed = << >>
    /\ bus_op = BusOp("init", 0, 0, "", TRUE, FALSE, FALSE)
    /\ worker_pc = "recv"
    /\ worker_data = None
    /\ my_gen = 0
    /\ offset = 0
    /\ ring_len = 0
    /\ ring_prev = 0
    /\ play_calls = [ th \in Players |-> IdlePlayer ]
    /\ issued = << >>
    /\ worker_issued = 0
    /\ stale_chunks = 0
    /\ writes = << >>
    /\ plays_started = 0
    /\ stops_sent = 0
    /\ reads_done = 0
    /\ audio_op = AudioOp("init", 0, 0, FALSE)
    /\ sink_out = None
    /\ ev_running = TRUE
    /\ button = NoButton
    /\ now_ms = 0
    /\ button_op = [ op |-> "init", accepted |-> FALSE, was_set |-> FALSE,
                     returned |-> FALSE, prev |-> NoEdge, seen |-> NoEdge ]
    /\ last_op = Op("init", None, None)
    /\ pre = Default
    /\ owned_elapsed = 0

\* ------------------------------------------------- GameState driven directly

Start ==
    /\ pre' = current_game
    /\ current_game' = start(current_game, now)
    /\ last_op' = Op("start", None, None)
    /\ owned_elapsed' = 0
    /\ UNCHANGED << now, audioVars, actorVars, workerVars, eventVars, buttonVars >>

Stop ==
    /\ pre' = current_game
    /\ current_game' = stop(current_game, now)
    /\ last_op' = Op("stop", None, None)
    /\ UNCHANGED << now, owned_elapsed, audioVars, actorVars, workerVars, eventVars, buttonVars >>

ButtonPress(team) ==
    /\ pre' = current_game
    /\ current_game' = button_press(current_game, team, now)
    /\ last_op' = Op("button_press", Some(team), None)
    /\ UNCHANGED << now, owned_elapsed, audioVars, actorVars, workerVars, eventVars, buttonVars >>

Tick ==
    /\ pre' = current_game
    /\ current_game' = tick(current_game, now)
    /\ last_op' = Op("tick", None, None)
    /\ UNCHANGED << now, owned_elapsed, audioVars, actorVars, workerVars, eventVars, buttonVars >>

Winner ==
    /\ pre' = current_game
    /\ last_op' = Op("winner", None, winner(current_game))
    /\ UNCHANGED << current_game, now, owned_elapsed, audioVars, actorVars, workerVars, eventVars, buttonVars >>

Scores ==
    /\ pre' = current_game
    /\ last_op' = Op("scores", None, Some(scores(current_game)))
    /\ UNCHANGED << current_game, now, owned_elapsed, audioVars, actorVars, workerVars, eventVars, buttonVars >>

ScoresPair ==
    /\ pre' = current_game
    /\ last_op' = Op("scores_pair", None, Some(scores_pair(current_game)))
    /\ UNCHANGED << current_game, now, owned_elapsed, audioVars, actorVars, workerVars, eventVars, buttonVars >>

\* The monotonic clock moves on by one second.
Advance(max_time) ==
    /\ now < max_time
    /\ now' = now + 1
    /\ pre' = current_game
    /\ last_op' = Op("advance", None, None)
    /\ owned_elapsed' =
           IF current_game.active /\ IsSome(current_game.current_team)
           THEN owned_elapsed + 1 ELSE owned_elapsed
    /\ UNCHANGED << current_game, audioVars, actorVars, workerVars, eventVars, buttonVars >>

AdvanceClock == Advance(MaxTime)

Next ==
    \/ Start
    \/ Stop
    \/ \E team \in Team : ButtonPress(team)
    \/ Tick
    \/ Winner
    \/ Scores
    \/ ScoresPair
    \/ AdvanceClock

Spec == Init /\ [][Next]_vars

\* ------------------------------------------------------- audio command channel

RED_TEAM_CAPTURE_SOUND == "RED_TEAM_CAPTURE_SOUND"

BLUE_TEAM_CAPTURE_SOUND == "BLUE_TEAM_CAPTURE_SOUND"

Play(data) == [ kind |-> "Play", data |-> Some(data) ]

fetch_add_lost(g) == g

\* AUDIO_GEN.fetch_add(1, SeqCst): one atomic read-modify-write.
fetch_add(g) == g + 1

\* BluetoothAudio::play_audio: bump the generation, then send Play(data).
play_audio(data) ==
    /\ audio_gen' = fetch_add(audio_gen)
    /\ audio_cmd_queue' = Append(audio_cmd_queue, Play(data))

\* ------------------------------------------------------ App-level handlers

\* The closure AppClient::start_game submits, as the owner loop executes it.
start_game(g, t) == IF active(g) THEN start(g, t) ELSE g

StartGame ==
    /\ pre' = current_game
    /\ current_game' = start_game(current_game, now)
    /\ last_op' = Op("start_game", None, None)
    /\ owned_elapsed' = IF active(current_game) THEN 0 ELSE owned_elapsed
    /\ UNCHANGED << now, audioVars, actorVars, workerVars, eventVars, buttonVars >>

\* App::team_press.
team_press(team) ==
    IF team = Blue
    THEN play_audio(BLUE_TEAM_CAPTURE_SOUND)
    ELSE play_audio(RED_TEAM_CAPTURE_SOUND)

TeamPress(team) ==
    /\ Len(audio_cmd_queue) < MaxAudioQueue
    /\ team_press(team)
    /\ pre' = current_game
    /\ last_op' = Op("team_press", Some(team),
                     Some([ gen |-> audio_gen, queued |-> Len(audio_cmd_queue) ]))
    /\ UNCHANGED << current_game, now, owned_elapsed, actorVars, workerVars, eventVars, buttonVars >>

\* The head of the owner loop: tick only while the match is active.
RunTick ==
    /\ pre' = current_game
    /\ current_game' = IF active(current_game) THEN tick(current_game, now) ELSE current_game
    /\ last_op' = Op("run_tick", None, None)
    /\ UNCHANGED << now, owned_elapsed, audioVars, actorVars, workerVars, eventVars, buttonVars >>

AdvanceAppClock == Advance(MaxAppTime)

NextApp ==
    \/ Start
    \/ Stop
    \/ \E team \in Team : ButtonPress(team)
    \/ RunTick
    \/ StartGame
    \/ \E team \in Team : TeamPress(team)
    \/ AdvanceAppClock

SpecApp == Init /\ [][NextApp]_vars

\* -------------------------------------------------------------- command bus

\* AppEvent::Command / AppEvent::Query holding the boxed closure `act`;
\* reply_to is the producer whose reply channel the closure writes (0: none).
Event(id, kind, act, reply_to) ==
    [ id |-> id, kind |-> kind, act |-> act, reply_to |-> reply_to ]

\* The closures submitted: the one of AppClient::start_game, one that starts
\* the match itself, one that returns Err, and a query reading the active flag.
CommandActs == { "start_game", "start", "fail" }

QueryActs == { "is_active" }

NoWaitActs == { "start" }

\* action(app): the state it leaves and the value it returns.
run_action(act, g, t) ==
    CASE act = "start_game" -> [ game |-> start_game(g, t), result |-> "Ok" ]
      [] act = "start"      -> [ game |-> start(g, t),      result |-> "Ok" ]
      [] act = "fail"       -> [ game |-> g,                result |-> "Err" ]
      [] act = "is_active"  -> [ game |-> g,
                                 result |-> IF active(g) THEN "true" ELSE "false" ]

send_never_ok(alive) == FALSE

send_always_ok(alive) == TRUE

\* mpsc::Sender::send succeeds exactly while the Receiver exists.
send_ok(alive) == alive

InQueue(q, id) == \E i \in 1..Len(q) : q[i].id = id

\* self.sender.send(event), then what the caller does with the outcome:
\* return the send error, block on the reply channel, or return Ok at once.
Submit(p, api, kind, act, waits, tracked) ==
    /\ callers[p].pc = "idle"
    /\ Len(app_queue) < MaxQueue
    /\ tracked => next_id <= MaxCalls
    /\ LET id == IF tracked THEN next_id ELSE 0
           ok == send_ok(receiver_alive)
           ev == Event(id, kind, act, IF waits THEN p ELSE 0)
       IN  /\ next_id' = IF tracked THEN next_id + 1 ELSE next_id
           /\ app_queue' = IF ok THEN Append(app_queue, ev) ELSE app_queue
           /\ enqueued' = IF ok /\ tracked THEN Append(enqueued, ev) ELSE enqueued
           /\ callers' =
                  [ callers EXCEPT ![p] =
                      IF ~ok THEN [ IdleCaller EXCEPT !.ret = Some("SendError") ]
                      ELSE IF waits THEN [ IdleCaller EXCEPT !.pc = "waiting", !.id = id ]
                      ELSE [ IdleCaller EXCEPT !.ret = Some("Ok") ] ]
           /\ bus_op' = BusOp(api, p, id, act, receiver_alive, FALSE, ok)
    /\ UNCHANGED << receiver_alive, loop_pc, executed, gameVars, audioVars,
                    last_op, pre, owned_elapsed, workerVars, eventVars, buttonVars >>

\* AppBus::command.
Command(p, act) == Submit(p, "command", "Command", act, TRUE, TRUE)

\* AppBus::query.
Query(p, act) == Submit(p, "query", "Query", act, TRUE, TRUE)

\* AppBus::command_no_wait.
CommandNoWait(p, act) == Submit(p, "command_no_wait", "Command", act, FALSE, TRUE)

\* AppBus::command_no_wait called again and again by a producer; these
\* submissions are not entered in the order histories.
CommandNoWaitRepeated(p, act) == Submit(p, "command_no_wait", "Command", act, FALSE, FALSE)

\* rx.recv_timeout returns the value the closure sent.
RecvReply(p) ==
    /\ callers[p].pc = "waiting"
    /\ IsSome(callers[p].reply)
    /\ callers' = [ callers EXCEPT ![p] = [ IdleCaller EXCEPT !.ret = callers[p].reply ] ]
    /\ bus_op' = BusOp("reply", p, callers[p].id, "", receiver_alive, FALSE,
                       InQueue(app_queue, callers[p].id))
    /\ UNCHANGED << app_queue, receiver_alive, loop_pc, next_id, enqueued, executed,
                    gameVars, audioVars, last_op, pre, owned_elapsed, workerVars, eventVars, buttonVars >>

recv_blocks_forever(c) == FALSE

\* rx.recv_timeout(Duration::from_secs(5)) gives up: nothing was sent and the
\* sending half still exists.
recv_timeout_elapses(c) == ~IsSome(c.reply) /\ ~c.tx_dropped

timeout_cancels_event(q, id) == SelectSeq(q, LAMBDA e : e.id # id)

\* The timed-out caller returns through `?`: it drops its receiving half and
\* touches nothing else; the event stays where it is.
queue_after_timeout(q, id) == q

RecvTimeout(p) ==
    /\ callers[p].pc = "waiting"
    /\ recv_timeout_elapses(callers[p])
    /\ callers' = [ callers EXCEPT ![p] = [ IdleCaller EXCEPT !.ret = Some("Timeout") ] ]
    /\ app_queue' = queue_after_timeout(app_queue, callers[p].id)
    /\ bus_op' = BusOp("timeout", p, callers[p].id, "", receiver_alive, FALSE,
                       InQueue(app_queue, callers[p].id))
    /\ UNCHANGED << receiver_alive, loop_pc, next_id, enqueued, executed,
                    gameVars, audioVars, last_op, pre, owned_elapsed, workerVars, eventVars, buttonVars >>

\* rx.recv_timeout fails at once: the closure was dropped without running.
RecvDisconnected(p) ==
    /\ callers[p].pc = "waiting"
    /\ ~IsSome(callers[p].reply)
    /\ callers[p].tx_dropped
    /\ callers' = [ callers EXCEPT ![p] = [ IdleCaller EXCEPT !.ret = Some("Disconnected") ] ]
    /\ bus_op' = BusOp("disconnected", p, callers[p].id, "", receiver_alive, FALSE, FALSE)
    /\ UNCHANGED << app_queue, receiver_alive, loop_pc, next_id, enqueued, executed,
                    gameVars, audioVars, last_op, pre, owned_elapsed, workerVars, eventVars, buttonVars >>

Return(p) == RecvReply(p) \/ RecvTimeout(p) \/ RecvDisconnected(p)

\* ---------------------------------------------------------------- owner loop

owner_free_always(c) == TRUE

\* routine(&mut self) and func(&mut self) are plain calls on the owner thread:
\* the loop goes on only once they have returned, so not while the thread is
\* inside command() or query() waiting on a reply channel.
owner_free(c) == c.pc # "waiting"

\* App::run, loop head: tick while the match is active.
LoopTick ==
    /\ receiver_alive
    /\ loop_pc = "tick"
    /\ pre' = current_game
    /\ current_game' = IF active(current_game) THEN tick(current_game, now) ELSE current_game
    /\ loop_pc' = "drain"
    /\ bus_op' = BusOp(IF active(current_game) THEN "loop_tick" ELSE "loop_no_tick",
                       0, 0, "", TRUE, FALSE, FALSE)
    /\ UNCHANGED << now, audioVars, app_queue, receiver_alive, callers, next_id,
                    enqueued, executed, last_op, owned_elapsed, workerVars, eventVars, buttonVars >>

try_recv_newest(q) == Len(q)

\* self.receiver.try_recv(): the position of the event taken.
try_recv(q) == 1

loop_stops_on_error(result) == IF result = "Err" THEN "gone" ELSE "drain"

\* func(&mut self) returns nothing to the loop: whatever the action returned
\* went into the reply channel, and the while-let takes the next event.
loop_after_action(result) == "drain"

remove_nothing(q, i) == q

\* try_recv() moves the event out of the channel.
RemoveAt(q, i) == SubSeq(q, 1, i - 1) \o SubSeq(q, i + 1, Len(q))

\* One turn of `while let Ok(event) = self.receiver.try_recv()`: run the closure;
\* it sends its result into its reply channel, which fails (and is logged) when
\* the caller has stopped waiting for it.
LoopDrain ==
    /\ receiver_alive
    /\ loop_pc = "drain"
    /\ owner_free(callers[OwnerThread])
    /\ app_queue # << >>
    /\ LET i  == try_recv(app_queue)
           ev == app_queue[i]
           r  == run_action(ev.act, current_game, now)
           deliver == /\ ev.reply_to # 0
                      /\ callers[ev.reply_to].pc = "waiting"
                      /\ callers[ev.reply_to].id = ev.id
       IN  /\ app_queue' = RemoveAt(app_queue, i)
           /\ pre' = current_game
           /\ current_game' = r.game
           /\ callers' = IF deliver
                         THEN [ callers EXCEPT ![ev.reply_to].reply = Some(r.result) ]
                         ELSE callers
           /\ executed' = IF ev.id # 0 THEN Append(executed, ev) ELSE executed
           /\ bus_op' = BusOp("exec", ev.reply_to, ev.id, ev.act, TRUE,
                              ev.reply_to # 0 /\ ~deliver, FALSE)
           /\ loop_pc' = loop_after_action(r.result)
    /\ UNCHANGED << now, audioVars, receiver_alive, next_id, enqueued,
                    last_op, owned_elapsed, workerVars, eventVars, buttonVars >>

\* try_recv() finds the queue empty: the drain ends.
LoopDrainDone ==
    /\ receiver_alive
    /\ loop_pc = "drain"
    /\ owner_free(callers[OwnerThread])
    /\ app_queue = << >>
    /\ loop_pc' = "routine"
    /\ bus_op' = BusOp("drain_done", 0, 0, "", TRUE, FALSE, FALSE)
    /\ UNCHANGED << gameVars, audioVars, app_queue, receiver_alive, callers, next_id,
                    enqueued, executed, last_op, pre, owned_elapsed, workerVars, eventVars, buttonVars >>

\* routine(&mut self).
LoopRoutine ==
    /\ receiver_alive
    /\ loop_pc = "routine"
    /\ owner_free(callers[OwnerThread])
    /\ loop_pc' = "sleep"
    /\ bus_op' = BusOp("routine", 0, 0, "", TRUE, FALSE, FALSE)
    /\ UNCHANGED << gameVars, audioVars, app_queue, receiver_alive, callers, next_id,
                    enqueued, executed, last_op, pre, owned_elapsed, workerVars, eventVars, buttonVars >>

\* FreeRtos::delay_ms(50).
LoopSleep ==
    /\ receiver_alive
    /\ loop_pc = "sleep"
    /\ loop_pc' = "tick"
    /\ bus_op' = BusOp("sleep", 0, 0, "", TRUE, FALSE, FALSE)
    /\ UNCHANGED << gameVars, audioVars, app_queue, receiver_alive, callers, next_id,
                    enqueued, executed, last_op, pre, owned_elapsed, workerVars, eventVars, buttonVars >>

OwnerStep == LoopTick \/ LoopDrain \/ LoopDrainDone \/ LoopRoutine \/ LoopSleep

\* The owner thread ends and the App is dropped: the Receiver goes, and with it
\* every event still queued, each with the sending half of its reply channel.
OwnerGone ==
    /\ receiver_alive
    /\ owner_free(callers[OwnerThread])
    /\ receiver_alive' = FALSE
    /\ loop_pc' = "gone"
    /\ app_queue' = << >>
    /\ callers' = [ p \in Threads |->
                      IF callers[p].pc = "waiting" /\ InQueue(app_queue, callers[p].id)
                      THEN [ callers[p] EXCEPT !.tx_dropped = TRUE ]
                      ELSE callers[p] ]
    /\ bus_op' = BusOp("owner_gone", 0, 0, "", FALSE, FALSE, FALSE)
    /\ UNCHANGED << gameVars, audioVars, next_id, enqueued, executed,
                    last_op, pre, owned_elapsed, workerVars, eventVars, buttonVars >>

NextActor ==
    \/ \E p \in Producers, act \in CommandActs : Command(p, act)
    \/ \E p \in Producers, act \in QueryActs : Query(p, act)
    \/ \E p \in Producers, act \in NoWaitActs : CommandNoWait(p, act)
    \/ \E p \in Producers : RecvReply(p)
    \/ \E p \in Producers : RecvTimeout(p)
    \/ \E p \in Producers : RecvDisconnected(p)
    \/ LoopTick
    \/ LoopDrain
    \/ LoopDrainDone
    \/ LoopRoutine
    \/ LoopSleep
    \/ OwnerGone

SpecActor == Init /\ [][NextActor]_vars

SpecActorCallers ==
    Init /\ [][NextActor]_vars /\ \A p \in Producers : WF_vars(Return(p))

\* The owner thread is inside the routine, or inside the action the drain has
\* just called.
in_owner_code == loop_pc = "routine" \/ (loop_pc = "drain" /\ bus_op.op = "exec")

\* The routine, or an action, calls AppBus::command on the App's own client.
SelfCommand(act) ==
    /\ receiver_alive
    /\ in_owner_code
    /\ Command(OwnerThread, act)

\* The routine, or an action, calls AppBus::query on the App's own client.
SelfQuery(act) ==
    /\ receiver_alive
    /\ in_owner_code
    /\ Query(OwnerThread, act)

NextActorSelf ==
    \/ NextActor
    \/ \E act \in CommandActs : SelfCommand(act)
    \/ \E act \in QueryActs : SelfQuery(act)
    \/ RecvTimeout(OwnerThread)

\* recv_timeout(5 s) returns once the five seconds are over.
SpecActorSelf ==
    Init /\ [][NextActorSelf]_vars /\ WF_vars(RecvTimeout(OwnerThread))

\* The owner thread is scheduled: whenever it can take a step of its loop it
\* does.
SpecActorOwnerFair == Init /\ [][NextActor]_vars /\ WF_vars(OwnerStep)

NextActorLive ==
    \/ NextActor
    \/ \E p \in Producers, act \in NoWaitActs : CommandNoWaitRepeated(p, act)

SpecActorLive == Init /\ [][NextActorLive]_vars /\ WF_vars(OwnerStep)

\* ------------------------------------------------------------ audio pipeline

Min(a, b) == IF a <= b THEN a ELSE b

\* The &'static [u8] payloads played, by name and length in bytes: one needs
\* two chunks after the prefill, one fits in the prefill, one is the prefill
\* and one whole chunk.
Payloads ==
    { [ name |-> "A", len |-> 5000 ],
      [ name |-> "B", len |-> 300 ],
      [ name |-> "D", len |-> 4608 ] }

\* A payload longer than the ring buffer.
LongPayload == [ name |-> "C", len |-> 66000 ]

\* The payloads played under SpecAudioCallers.
CallersPayloads == { LongPayload, [ name |-> "B", len |-> 300 ] }

\* buffer.len() of the source data callbacks served.
ReadSizes == { 512 }

StopCommand == [ kind |-> "Stop", data |-> None ]

InStream == worker_pc \in { "check", "send" }

\* play_audio, first statement: AUDIO_GEN.fetch_add(1, SeqCst).
PlayFetchAdd(th, data) ==
    /\ play_calls[th].pc = "idle"
    /\ plays_started < MaxPlays
    /\ audio_gen' = fetch_add(audio_gen)
    /\ play_calls' = [ play_calls EXCEPT
                         ![th] = [ pc |-> "send", data |-> Some(data), gen |-> fetch_add(audio_gen) ] ]
    /\ plays_started' = plays_started + 1
    /\ audio_op' = AudioOp("fetch_add", th, audio_gen, InStream)
    /\ UNCHANGED << audio_cmd_queue, worker_pc, worker_data, my_gen, offset, ring_len, ring_prev, issued,
                    worker_issued, stale_chunks, writes, stops_sent, reads_done, sink_out,
                    gameVars, actorVars, histVars, eventVars, buttonVars >>

audio_send_rendezvous(q) == q = << >> /\ worker_pc = "recv"

\* audio_cmd_tx is the Sender of an unbounded mpsc::channel(): send never waits.
audio_send_ready(q) == TRUE

\* play_audio, second statement: self.audio_cmd_tx.send(Play(data)).ok(); return.
PlaySend(th) ==
    /\ play_calls[th].pc = "send"
    /\ audio_send_ready(audio_cmd_queue)
    /\ audio_cmd_queue' = Append(audio_cmd_queue, Play(Unwrap(play_calls[th].data)))
    /\ issued' = Append(issued, play_calls[th].gen)
    /\ play_calls' = [ play_calls EXCEPT ![th] = IdlePlayer ]
    /\ audio_op' = AudioOp("play_returned", th, audio_gen, InStream)
    /\ UNCHANGED << audio_gen, worker_pc, worker_data, my_gen, offset, ring_len, ring_prev,
                    worker_issued, stale_chunks, writes, plays_started, stops_sent,
                    reads_done, sink_out, gameVars, actorVars, histVars, eventVars, buttonVars >>

PlayStep(th) ==
    \/ \E data \in Payloads \cup CallersPayloads : PlayFetchAdd(th, data)
    \/ PlaySend(th)

\* A stop request: the code has no stop method, so all a thread can do is
\* send AudioCommand::Stop; the generation is left to the worker.
SendStop(th) ==
    /\ play_calls[th].pc = "idle"
    /\ stops_sent < MaxStops
    /\ audio_cmd_queue' = Append(audio_cmd_queue, StopCommand)
    /\ issued' = Append(issued, audio_gen)
    /\ stops_sent' = stops_sent + 1
    /\ audio_op' = AudioOp("stop_sent", th, audio_gen, InStream)
    /\ UNCHANGED << audio_gen, worker_pc, worker_data, my_gen, offset, ring_len, ring_prev, play_calls,
                    worker_issued, stale_chunks, writes, plays_started, reads_done, sink_out,
                    gameVars, actorVars, histVars, eventVars, buttonVars >>

flush_nothing(k) == k

\* flush_ringbuffer: receive and return items until none is left.
flush_ringbuffer(k) == 0

\* rx.recv() yields Play(data): load my_gen, flush the ring buffer.
WorkerRecvPlay ==
    /\ worker_pc = "recv"
    /\ audio_cmd_queue # << >>
    /\ Head(audio_cmd_queue).kind = "Play"
    /\ worker_data' = Head(audio_cmd_queue).data
    /\ audio_cmd_queue' = Tail(audio_cmd_queue)
    /\ worker_issued' = Head(issued)
    /\ issued' = Tail(issued)
    /\ my_gen' = audio_gen
    /\ ring_len' = flush_ringbuffer(ring_len)
    /\ ring_prev' = flush_ringbuffer(ring_len)
    /\ offset' = 0
    /\ writes' = << >>
    /\ stale_chunks' = 0
    /\ worker_pc' = "prefill"
    /\ audio_op' = AudioOp("recv_play", 0, audio_gen, FALSE)
    /\ UNCHANGED << audio_gen, play_calls, plays_started, stops_sent, reads_done, sink_out,
                    gameVars, actorVars, histVars, eventVars, buttonVars >>

\* xRingbufferSend with TickType_t::MAX: waits until the bytes fit.
send_fits(k, n) == k + n <= RingCapacity

prefill_whole(len) == len

\* let prefill = PREFILL.min(data.len()).
prefill_len(len) == Min(PREFILL, len)

\* bt.send_bytes(&data[..prefill], MAX); offset = prefill.
WorkerPrefill ==
    /\ worker_pc = "prefill"
    /\ LET n == prefill_len(Unwrap(worker_data).len)
       IN  /\ send_fits(ring_len, n)
           /\ ring_len' = ring_len + n
           /\ writes' = Append(writes, [ from |-> 0, to |-> n ])
           /\ offset' = n
    /\ worker_pc' = "check"
    /\ audio_op' = AudioOp("prefill", 0, audio_gen, FALSE)
    /\ UNCHANGED << audioVars, ring_prev, worker_data, my_gen, play_calls, issued, worker_issued,
                    stale_chunks, plays_started, stops_sent, reads_done, sink_out,
                    gameVars, actorVars, histVars, eventVars, buttonVars >>

gen_changed_never(g, mine) == FALSE

\* AUDIO_GEN.load(Relaxed) != my_gen.
gen_changed(g, mine) == g # mine

\* `while offset < data.len()`, then the generation check of the loop body.
WorkerCheck ==
    /\ worker_pc = "check"
    /\ IF offset >= Unwrap(worker_data).len
       THEN /\ worker_pc' = "recv"
            /\ audio_op' = AudioOp("done", 0, audio_gen, TRUE)
       ELSE IF gen_changed(audio_gen, my_gen)
       THEN /\ worker_pc' = "recv"
            /\ audio_op' = AudioOp("abort", 0, audio_gen, TRUE)
       ELSE /\ worker_pc' = "send"
            /\ audio_op' = AudioOp("check_passed", 0, audio_gen, TRUE)
    /\ UNCHANGED << audioVars, worker_data, my_gen, offset, ring_len, ring_prev, play_calls, issued,
                    worker_issued, stale_chunks, writes, plays_started, stops_sent,
                    reads_done, sink_out, gameVars, actorVars, histVars, eventVars, buttonVars >>

chunk_end_unclamped(off, len) == off + CHUNK

\* let end = (offset + CHUNK).min(data.len()).
chunk_end(off, len) == Min(off + CHUNK, len)

\* bt.send_bytes(&data[offset..end], MAX); offset = end; sleep 2 ms.
WorkerSend ==
    /\ worker_pc = "send"
    /\ LET end == chunk_end(offset, Unwrap(worker_data).len)
       IN  /\ send_fits(ring_len, end - offset)
           /\ ring_len' = ring_len + (end - offset)
           /\ writes' = Append(writes, [ from |-> offset, to |-> end ])
           /\ offset' = end
    /\ stale_chunks' = IF audio_gen # my_gen THEN stale_chunks + 1 ELSE stale_chunks
    /\ worker_pc' = "check"
    /\ audio_op' = AudioOp("chunk", 0, audio_gen, TRUE)
    /\ UNCHANGED << audioVars, ring_prev, worker_data, my_gen, play_calls, issued, worker_issued,
                    plays_started, stops_sent, reads_done, sink_out,
                    gameVars, actorVars, histVars, eventVars, buttonVars >>

\* rx.recv() yields Stop: AUDIO_GEN.fetch_add(1), flush the ring buffer.
WorkerRecvStop ==
    /\ worker_pc = "recv"
    /\ audio_cmd_queue # << >>
    /\ Head(audio_cmd_queue).kind = "Stop"
    /\ audio_cmd_queue' = Tail(audio_cmd_queue)
    /\ worker_issued' = Head(issued)
    /\ issued' = Tail(issued)
    /\ audio_gen' = fetch_add(audio_gen)
    /\ ring_len' = flush_ringbuffer(ring_len)
    /\ ring_prev' = flush_ringbuffer(ring_len)
    /\ audio_op' = AudioOp("worker_stop", 0, audio_gen, FALSE)
    /\ UNCHANGED << worker_pc, worker_data, my_gen, offset, play_calls, stale_chunks, writes,
                    plays_started, stops_sent, reads_done, sink_out,
                    gameVars, actorVars, histVars, eventVars, buttonVars >>

source_data_exact(k, n) ==
    [ copied |-> Min(k, n), data |-> Min(k, n), zeros |-> 0, untouched |-> n - Min(k, n) ]

\* A2dpEvent::SourceData(buffer) with k bytes in the ring buffer and
\* buffer.len() = n: how many bytes the handler reports, and how many bytes of
\* the buffer it filled with audio, filled with zeros, or left as they were.
source_data(k, n) ==
    IF k > 0 /\ n > 0
    THEN [ copied |-> Min(k, n), data |-> Min(k, n), zeros |-> 0, untouched |-> n - Min(k, n) ]
    ELSE [ copied |-> n, data |-> 0, zeros |-> n, untouched |-> 0 ]

\* The A2DP stack asks for n bytes.
SourceData(n) ==
    /\ reads_done < MaxReads
    /\ LET out == source_data(ring_len, n)
       IN  /\ ring_len' = ring_len - out.data
           /\ ring_prev' = ring_prev - Min(ring_prev, out.data)
           /\ sink_out' = Some([ n |-> n, held |-> ring_len, copied |-> out.copied,
                                 data |-> out.data, zeros |-> out.zeros,
                                 untouched |-> out.untouched,
                                 earlier |-> Min(ring_prev, out.data) ])
    /\ reads_done' = reads_done + 1
    /\ audio_op' = AudioOp("source_data", 0, audio_gen, InStream)
    /\ UNCHANGED << audioVars, worker_pc, worker_data, my_gen, offset, play_calls, issued,
                    worker_issued, stale_chunks, writes, plays_started, stops_sent,
                    gameVars, actorVars, histVars, eventVars, buttonVars >>

NextAudio ==
    \/ \E th \in Players, data \in Payloads : PlayFetchAdd(th, data)
    \/ \E th \in Players : PlaySend(th)
    \/ \E th \in Players : SendStop(th)
    \/ WorkerRecvPlay
    \/ WorkerPrefill
    \/ WorkerCheck
    \/ WorkerSend
    \/ WorkerRecvStop
    \/ \E n \in ReadSizes : SourceData(n)

SpecAudio == Init /\ [][NextAudio]_vars

\* The sink is not connected (no source data callback comes), so that a
\* long payload fills the ring buffer.
NextAudioCallers ==
    \/ \E th \in Players, data \in CallersPayloads : PlayFetchAdd(th, data)
    \/ \E th \in Players : PlaySend(th)
    \/ WorkerRecvPlay
    \/ WorkerPrefill
    \/ WorkerCheck
    \/ WorkerSend

SpecAudioCallers ==
    Init /\ [][NextAudioCallers]_vars /\ \A th \in Players : WF_vars(PlayStep(th))

\* The worker thread is scheduled too: whenever one of its steps stays
\* possible it is taken.
WorkerStep == WorkerRecvPlay \/ WorkerPrefill \/ WorkerCheck \/ WorkerSend

SpecAudioWorkerFair ==
    /\ Init
    /\ [][NextAudioCallers]_vars
    /\ WF_vars(WorkerStep)
    /\ \A th \in Players : WF_vars(PlayStep(th))

\* ------------------------------------------------- event-driven owner loop

PLUH_SOUND == "PLUH_SOUND"

LOW_HONOR_SOUND == "LOW_HONOR_SOUND"

\* AppEvent::StartGame is posted; the loop, if it still receives, handles it.
EventStartGame ==
    /\ pre' = current_game
    /\ last_op' = Op("StartGame", None, None)
    /\ current_game' = IF ev_running /\ ~current_game.active
                       THEN start(new(EventTimeToWin), now)
                       ELSE current_game
    /\ UNCHANGED << now, owned_elapsed, audioVars, actorVars, workerVars, eventVars, buttonVars >>

\* AppEvent::EndGame is posted: `return` when no match is active, else stop().
EventEndGame ==
    /\ pre' = current_game
    /\ last_op' = Op("EndGame", None, None)
    /\ IF ~ev_running
       THEN UNCHANGED << current_game, ev_running >>
       ELSE IF ~current_game.active
       THEN /\ ev_running' = FALSE
            /\ UNCHANGED current_game
       ELSE /\ current_game' = stop(current_game, now)
            /\ UNCHANGED ev_running
    /\ UNCHANGED << now, owned_elapsed, audioVars, actorVars, workerVars, buttonVars >>

\* AppEvent::ButtonPress(team) is posted: `return` when no match is active,
\* else play the team's sound and call button_press(team).
EventButtonPress(team) ==
    /\ Len(audio_cmd_queue) < MaxAudioQueue
    /\ pre' = current_game
    /\ last_op' = Op("ButtonPress", Some(team), None)
    /\ IF ~ev_running
       THEN UNCHANGED << current_game, ev_running, audioVars >>
       ELSE IF ~current_game.active
       THEN /\ ev_running' = FALSE
            /\ UNCHANGED << current_game, audioVars >>
       ELSE /\ IF team = Blue THEN play_audio(PLUH_SOUND) ELSE play_audio(LOW_HONOR_SOUND)
            /\ current_game' = button_press(current_game, team, now)
            /\ UNCHANGED ev_running
    /\ UNCHANGED << now, owned_elapsed, actorVars, workerVars, buttonVars >>

NextEvents ==
    \/ EventStartGame
    \/ EventEndGame
    \/ \E team \in Team : EventButtonPress(team)
    \/ AdvanceAppClock

SpecEvents == Init /\ [][NextEvents]_vars

\* ------------------------------------------------------------ input button

\* The debounce_ms values a button is built with.
Debounces == 0..MaxDebounce

\* InputButton::new(pin, debounce_ms).
InputButtonNew(debounce_ms) ==
    /\ button.state = "none"
    /\ button' = [ state |-> "new", pressed |-> FALSE, last_press_ms |-> 0,
                   debounce_ms |-> debounce_ms ]
    /\ button_op' = ButtonOp("new", FALSE, FALSE, FALSE, button_op.seen)
    /\ UNCHANGED << now_ms, gameVars, audioVars, actorVars, workerVars, histVars, eventVars >>

\* set_callback: subscribe the interrupt handler and enable the interrupt.
SetCallback ==
    /\ button.state = "new"
    /\ button' = [ button EXCEPT !.state = "subscribed" ]
    /\ button_op' = ButtonOp("set_callback", FALSE, button.pressed, FALSE, button_op.seen)
    /\ UNCHANGED << now_ms, gameVars, audioVars, actorVars, workerVars, histVars, eventVars >>

\* usize::saturating_sub.
saturating_sub(a, b) == IF a >= b THEN a - b ELSE 0

accepts_all(t, last, debounce) == TRUE

\* now_ms.saturating_sub(last) >= debounce.
accepts(t, last, debounce) == saturating_sub(t, last) >= debounce

last_kept(t, last) == last

\* else branch: last_press.store(now_ms).
last_after_reject(t, last) == t

\* The handler subscribed by set_callback, run on a falling edge.
FallingEdge ==
    /\ button.state = "subscribed"
    /\ LET ok == accepts(now_ms, button.last_press_ms, button.debounce_ms)
       IN  /\ button' = IF ok
                         THEN [ button EXCEPT !.last_press_ms = now_ms, !.pressed = TRUE ]
                         ELSE [ button EXCEPT !.last_press_ms =
                                                  last_after_reject(now_ms, button.last_press_ms) ]
           /\ button_op' = ButtonOp("edge", ok, button.pressed, FALSE,
                                    [ at |-> Some(now_ms), accepted |-> ok,
                                      unread |-> ok \/ button_op.seen.unread ])
    /\ UNCHANGED << now_ms, gameVars, audioVars, actorVars, workerVars, histVars, eventVars >>

swap_keeps(flag) == flag

\* self.pressed.swap(false, Relaxed): the value stored.
swap_false(flag) == FALSE

\* InputButton::is_pressed.
IsPressed ==
    /\ button.state # "none"
    /\ button' = [ button EXCEPT !.pressed = swap_false(button.pressed) ]
    /\ button_op' = ButtonOp("is_pressed", FALSE, button.pressed, button.pressed,
                             [ button_op.seen EXCEPT !.unread = FALSE ])
    /\ UNCHANGED << now_ms, gameVars, audioVars, actorVars, workerVars, histVars, eventVars >>

\* A millisecond passes.
AdvanceMs ==
    /\ now_ms < MaxButtonTime
    /\ now_ms' = now_ms + 1
    /\ button_op' = ButtonOp("advance", FALSE, button.pressed, FALSE, button_op.seen)
    /\ UNCHANGED << button, gameVars, audioVars, actorVars, workerVars, histVars, eventVars >>

NextButton ==
    \/ \E debounce_ms \in Debounces : InputButtonNew(debounce_ms)
    \/ SetCallback
    \/ FallingEdge
    \/ IsPressed
    \/ AdvanceMs

SpecButton == Init /\ [][NextButton]_vars

\* ------------------------------------------------------------------ typing

Option(S) == {None} \cup { Some(x) : x \in S }

TypeOK ==
    /\ current_game.active \in BOOLEAN
    /\ current_game.current_team \in Option(Team)
    /\ current_game.last_tick \in Option(0..MaxTime)
    /\ current_game.team_red_time \in 0..MaxTime
    /\ current_game.team_blue_time \in 0..MaxTime
    /\ current_game.time_to_win = DefaultTimeToWin
    /\ now \in 0..MaxTime
    /\ audio_gen \in Nat
    /\ Len(audio_cmd_queue) <= MaxAudioQueue

\* ------------------------------------------------------------------ claims

Crossed(d, g) == d >= g.time_to_win

\* C1: start_game() executed while no match is active starts the match: the
\* clock is then active with both durations zero and no owner.
C1_StartGameStartsIdleMatch ==
    (last_op.op = "start_game" /\ ~pre.active) =>
        /\ current_game.active
        /\ current_game.team_red_time = 0
        /\ current_game.team_blue_time = 0
        /\ current_game.current_team = None

\* C2: start_game() executed while a match is active is a no-op: active, owner,
\* last_tick and both durations are left as they were.
C2_StartGameWhileActiveNoOp ==
    (last_op.op = "start_game" /\ pre.active) => current_game = pre

\* C3: team_press(team) executed while a match is active requests the team's
\* cue and makes the pressed team the owner.
C3_TeamPressUpdatesOwner ==
    (last_op.op = "team_press" /\ pre.active) =>
        /\ Len(audio_cmd_queue) > 0
        /\ audio_cmd_queue[Len(audio_cmd_queue)].kind = "Play"
        /\ current_game.current_team = last_op.team

\* C4: winner() answers Red when blue_time has reached the threshold (also when
\* both have), otherwise Blue when red_time has, otherwise None, and leaves the
\* clock as it was.
C4_WinnerComparisonOrder ==
    last_op.op = "winner" =>
        /\ Crossed(pre.team_blue_time, pre) => last_op.ret = Some(Red)
        /\ (~Crossed(pre.team_blue_time, pre) /\ Crossed(pre.team_red_time, pre))
               => last_op.ret = Some(Blue)
        /\ (~Crossed(pre.team_blue_time, pre) /\ ~Crossed(pre.team_red_time, pre))
               => last_op.ret = None
        /\ current_game = pre

C4_Witness ==
    /\ last_op.op = "winner"
    /\ Crossed(pre.team_blue_time, pre)
    /\ Crossed(pre.team_red_time, pre)
    /\ last_op.ret = Some(Red)

\* C5 as stated: in every reachable state winner() reports a winner iff exactly
\* one duration has reached the threshold, and never have both reached it.
C5_ExactlyOneCrossed ==
    /\ IsSome(winner(current_game)) <=>
           (Crossed(current_game.team_red_time, current_game)
                # Crossed(current_game.team_blue_time, current_game))
    /\ ~(Crossed(current_game.team_red_time, current_game)
             /\ Crossed(current_game.team_blue_time, current_game))

\* C5 amended: in every reachable state winner() reports a winner iff at least
\* one duration has reached the threshold; both may have reached it.
C5_WinnerIffSomeCrossed ==
    IsSome(winner(current_game)) <=>
        (Crossed(current_game.team_red_time, current_game)
             \/ Crossed(current_game.team_blue_time, current_game))

C5_Witness ==
    /\ Crossed(current_game.team_red_time, current_game)
    /\ Crossed(current_game.team_blue_time, current_game)
    /\ winner(current_game) = Some(Red)

\* C6: once winner() reports a winner on an active clock, it still reports one
\* after a further tick() or button_press().
C6_WinStaysReported ==
    (last_op.op \in {"tick", "button_press"} /\ pre.active /\ IsSome(winner(pre)))
        => IsSome(winner(current_game))

C6_Witness ==
    /\ last_op.op = "tick"
    /\ pre.active
    /\ IsSome(winner(pre))
    /\ current_game.team_red_time > pre.team_red_time
    /\ IsSome(winner(current_game))

\* C7: no operation other than start() lowers red_time or blue_time.
C7_DurationsNeverDecrease ==
    last_op.op # "start" =>
        /\ current_game.team_red_time >= pre.team_red_time
        /\ current_game.team_blue_time >= pre.team_blue_time

C7_Witness ==
    /\ last_op.op = "stop"
    /\ pre.active
    /\ pre.team_red_time > 0
    /\ current_game.team_red_time > pre.team_red_time
    /\ current_game.team_blue_time > 0

\* C8: after tick() or button_press() on an active clock, red_time + blue_time
\* is the clock time that passed since start() while an owner was set.
C8_SumIsOwnedTime ==
    (current_game.active /\ last_op.op \in {"tick", "button_press"}) =>
        current_game.team_red_time + current_game.team_blue_time = owned_elapsed

C8_Witness ==
    /\ current_game.active
    /\ last_op.op = "tick"
    /\ current_game.team_red_time > 0
    /\ current_game.team_blue_time > 0
    /\ current_game.team_red_time + current_game.team_blue_time = owned_elapsed
    /\ owned_elapsed < now

Elapsed(g, t) == IF IsSome(g.last_tick) THEN duration_since(t, Unwrap(g.last_tick)) ELSE 0

CreditTo(team, g, t) == IF g.current_team = Some(team) THEN Elapsed(g, t) ELSE 0

\* C9: button_press(team) on an active clock credits the time since last_tick
\* to the previous owner (to nobody without one), then makes team the owner.
C9_PressCreditsPreviousOwner ==
    (last_op.op = "button_press" /\ pre.active) =>
        /\ current_game.team_red_time = pre.team_red_time + CreditTo(Red, pre, now)
        /\ current_game.team_blue_time = pre.team_blue_time + CreditTo(Blue, pre, now)
        /\ current_game.current_team = last_op.team
        /\ current_game.last_tick = Some(now)

C9_Witness ==
    /\ last_op.op = "button_press"
    /\ last_op.team = Some(Blue)
    /\ pre.active
    /\ pre.current_team = Some(Red)
    /\ Elapsed(pre, now) > 0
    /\ current_game.team_red_time = pre.team_red_time + Elapsed(pre, now)
    /\ current_game.team_blue_time = pre.team_blue_time
    /\ current_game.current_team = Some(Blue)

\* C10: on an inactive clock tick() and button_press(team) change no field.
C10_InactiveNoOp ==
    (last_op.op \in {"tick", "button_press"} /\ ~pre.active) => current_game = pre

C10_Witness ==
    /\ last_op.op = "button_press"
    /\ ~pre.active
    /\ pre.team_red_time > 0
    /\ now > 0
    /\ current_game = pre

\* C11: stop() is idempotent: a second stop(), however much later, leaves the
\* state the first stop() produced.
C11_StopIdempotent ==
    /\ \A later \in now..MaxTime :
           stop(stop(current_game, now), later) = stop(current_game, now)
    /\ (last_op.op = "stop" /\ ~pre.active) => current_game = pre

C11_Witness ==
    /\ last_op.op = "stop"
    /\ ~pre.active
    /\ pre.team_red_time > 0
    /\ pre.team_blue_time > 0
    /\ current_game = pre

\* C12: start() from any state gives active = true, owner = None,
\* last_tick = now and both durations zero.
C12_StartResets ==
    last_op.op = "start" =>
        /\ current_game.active
        /\ current_game.current_team = None
        /\ current_game.last_tick = Some(now)
        /\ current_game.team_red_time = 0
        /\ current_game.team_blue_time = 0
        /\ current_game.time_to_win = pre.time_to_win

C12_Witness ==
    /\ last_op.op = "start"
    /\ pre.active
    /\ pre.current_team = Some(Blue)
    /\ pre.team_red_time > 0
    /\ pre.team_blue_time > 0
    /\ current_game.team_red_time = 0
    /\ current_game.team_blue_time = 0
    /\ current_game.current_team = None

\* C13: with Red the only team that has held the point since start(), after a
\* tick() winner() is None while red_time is below the threshold and reports a
\* winner once red_time has reached it (reaching it exactly counts).
C13_RedHoldsUntilThreshold ==
    ( /\ last_op.op = "tick"
      /\ current_game.active
      /\ current_game.current_team = Some(Red)
      /\ current_game.team_blue_time = 0 ) =>
        /\ current_game.team_red_time < current_game.time_to_win
               => winner(current_game) = None
        /\ current_game.team_red_time >= current_game.time_to_win
               => IsSome(winner(current_game))

C13_Witness ==
    /\ last_op.op = "tick"
    /\ current_game.active
    /\ current_game.current_team = Some(Red)
    /\ current_game.team_blue_time = 0
    /\ pre.team_red_time < current_game.time_to_win
    /\ winner(pre) = None
    /\ current_game.team_red_time = current_game.time_to_win
    /\ IsSome(winner(current_game))

\* C14: scores() returns Red's time first and Blue's second and changes no
\* state.
C14_ScoresRedFirst ==
    /\ last_op.op = "scores" =>
           /\ Unwrap(last_op.ret).red = pre.team_red_time
           /\ Unwrap(last_op.ret).blue = pre.team_blue_time
           /\ current_game = pre
    /\ last_op.op = "scores_pair" =>
           /\ Unwrap(last_op.ret)[1] = pre.team_red_time
           /\ Unwrap(last_op.ret)[2] = pre.team_blue_time
           /\ current_game = pre

\* ------------------------------------------------ claims on the command bus

IsPrefix(a, b) == Len(a) <= Len(b) /\ \A i \in 1..Len(a) : a[i] = b[i]

Ids(q) == { q[i].id : i \in 1..Len(q) }

SubmitOps == { "command", "query", "command_no_wait" }

\* C15: the owner loop executes the submitted actions in exactly the order in
\* which they were enqueued, whichever thread sent them and whether they are
\* Commands or Queries: what has been executed is always the first part of
\* what has been enqueued.
C15_ExecutedInArrivalOrder == IsPrefix(executed, enqueued)

C15_Witness ==
    /\ bus_op.op = "exec"
    /\ Len(executed) = 2
    /\ executed[1].kind = "Query"
    /\ executed[2].kind = "Command"
    /\ executed[1].reply_to # executed[2].reply_to
    /\ bus_op.id = executed[2].id

\* C16: a reply timeout ends only the caller's wait.  The timed-out event is
\* still in the queue right after the timeout, no enqueued event ever leaves
\* the queue of a living owner other than by being executed, and when the owner
\* reaches an event whose caller has given up it applies the action's mutation
\* while the caller keeps the error it returned.
C16_TimeoutKeepsAction ==
    /\ (bus_op.op = "timeout" /\ bus_op.queued) =>
           /\ InQueue(app_queue, bus_op.id)
           /\ callers[bus_op.caller].ret = Some("Timeout")
    /\ receiver_alive => Ids(enqueued) = Ids(executed) \cup Ids(app_queue)
    /\ (bus_op.op = "exec" /\ bus_op.stale) =>
           /\ current_game = run_action(bus_op.act, pre, now).game
           /\ callers[bus_op.caller].id # bus_op.id
           /\ ~IsSome(callers[bus_op.caller].reply)

C16_Witness ==
    /\ bus_op.op = "exec"
    /\ bus_op.stale
    /\ bus_op.act = "start"
    /\ ~pre.active
    /\ current_game.active
    /\ callers[bus_op.caller].pc = "idle"
    /\ callers[bus_op.caller].ret = Some("Timeout")

\* C17: a submission made when the receiver is gone returns the send error at
\* once (the caller is not left waiting), and its action is neither queued nor
\* ever executed.
C17_ClosedQueueFailsAtOnce ==
    /\ (bus_op.op \in SubmitOps /\ ~bus_op.alive) =>
           /\ callers[bus_op.caller].pc = "idle"
           /\ callers[bus_op.caller].ret = Some("SendError")
           /\ ~bus_op.queued
    /\ ~receiver_alive => app_queue = << >>
    /\ Ids(executed) \subseteq Ids(enqueued)

C17_Witness ==
    /\ bus_op.op = "command"
    /\ ~bus_op.alive
    /\ callers[bus_op.caller].ret = Some("SendError")
    /\ bus_op.id \notin Ids(executed)
    /\ executed # << >>

\* C18: every caller blocked in command() or query() eventually returns, even
\* when the owner never executes its action.
C18_CallReturns ==
    \A p \in Producers : (callers[p].pc = "waiting") ~> (callers[p].pc = "idle")

C18_Witness ==
    /\ bus_op.op = "timeout"
    /\ callers[bus_op.caller].pc = "idle"
    /\ callers[bus_op.caller].ret = Some("Timeout")
    /\ bus_op.id \notin Ids(executed)
    /\ loop_pc = "tick"
    /\ executed = << >>

\* C19: command_no_wait never waits: it returns Ok exactly when the send
\* succeeded, with its action still unexecuted in the queue, and the send error
\* exactly when the receiver is gone.
C19_NoWaitReturnsOnEnqueue ==
    bus_op.op = "command_no_wait" =>
        /\ callers[bus_op.caller].pc = "idle"
        /\ bus_op.alive =>
               /\ callers[bus_op.caller].ret = Some("Ok")
               /\ InQueue(app_queue, bus_op.id)
               /\ bus_op.id \notin Ids(executed)
        /\ ~bus_op.alive =>
               /\ callers[bus_op.caller].ret = Some("SendError")
               /\ ~InQueue(app_queue, bus_op.id)

C19_Witness ==
    /\ bus_op.op = "command_no_wait"
    /\ bus_op.alive
    /\ callers[bus_op.caller].ret = Some("Ok")
    /\ loop_pc = "sleep"
    /\ Len(app_queue) = 2
    /\ bus_op.id \notin Ids(executed)

\* C20: while the owner lives and the match is active, tick() is called again
\* and again, whatever the producers do.
C20_TickNeverStarved ==
    []<>(~receiver_alive \/ ~current_game.active \/ bus_op.op = "loop_tick")

\* --------------------------------------------- claims on the audio pipeline

WriteLen(w) == w.to - w.from

Quiescent ==
    /\ \A th \in Players : play_calls[th].pc = "idle"
    /\ audio_cmd_queue = << >>
    /\ worker_pc = "recv"

\* C21: once the generation is bumped while the worker streams a payload it
\* has dequeued, the worker writes at most the one chunk that was past its
\* check (at most 512 bytes), begins no chunk at a check that sees the bump,
\* and leaves the payload there.
C21_AbortAtNextBoundary ==
    /\ stale_chunks <= 1
    /\ (audio_op.op = "chunk" /\ audio_op.gen # my_gen) => WriteLen(writes[Len(writes)]) <= 512
    /\ audio_op.op = "check_passed" => audio_op.gen = my_gen
    /\ audio_op.op = "abort" => worker_pc = "recv" /\ offset < Unwrap(worker_data).len

C21_Witness ==
    /\ audio_op.op = "abort"
    /\ stale_chunks = 1
    /\ Unwrap(worker_data).name = "A"
    /\ worker_issued = my_gen
    /\ audio_gen = my_gen + 1
    /\ offset = 4608

\* C22: the worker handles a Play under the generation its own play() call
\* assigned, and passes a chunk check only while that generation is still the
\* current one: a Play superseded before it was dequeued streams no chunk.
C22_PlayCarriesItsGeneration ==
    /\ worker_pc \in { "prefill", "check", "send" } => my_gen = worker_issued
    /\ audio_op.op = "check_passed" => worker_issued = audio_op.gen

\* C23: sending a stop request bumps the generation then and there, so no
\* chunk check passes while a Stop waits in the queue, and the worker flushes
\* the ring buffer when it handles the Stop.
C23_StopBumpsWhenIssued ==
    /\ audio_op.op = "stop_sent" => audio_gen = audio_op.gen + 1
    /\ audio_op.op = "check_passed" =>
           \A i \in 1..Len(audio_cmd_queue) : audio_cmd_queue[i].kind # "Stop"
    /\ audio_op.op = "worker_stop" => ring_len = 0

\* C24: when every play() call has returned and the worker has handled them
\* all, the payload handled last (the one heard last) is the one whose call was
\* assigned the last generation, and it was streamed to completion.
C24_LastGenerationWins ==
    (Quiescent /\ stops_sent = 0 /\ plays_started = MaxPlays /\ audio_op.op \in { "done", "abort" }) =>
        /\ worker_issued = audio_gen
        /\ audio_op.op = "done"

\* C25: a payload of length L streamed to its end was written as one prefill
\* of min(4096, L) bytes from offset 0, then consecutive chunks of 512 bytes,
\* the last one shorter, each starting where the previous ended and the last
\* ending at L; L = 5000 gives 4096, 512, 392.
C25_WritesCoverPayload ==
    audio_op.op = "done" =>
        LET L == Unwrap(worker_data).len
            n == Len(writes)
        IN  /\ n >= 1
            /\ writes[1].from = 0
            /\ writes[1].to = IF L < 4096 THEN L ELSE 4096
            /\ writes[n].to = L
            /\ \A i \in 2..n :
                   /\ writes[i].from = writes[i - 1].to
                   /\ WriteLen(writes[i]) > 0
                   /\ WriteLen(writes[i]) <= 512
                   /\ i < n => WriteLen(writes[i]) = 512
            /\ L = 5000 => [ i \in 1..n |-> WriteLen(writes[i]) ] = << 4096, 512, 392 >>

C25_Witness ==
    /\ audio_op.op = "done"
    /\ Unwrap(worker_data).len = 5000
    /\ Len(writes) = 3
    /\ stale_chunks = 0

\* C26: a thread inside play_audio always comes out of it, whatever the
\* worker does.
C26_PlayReturns ==
    \A th \in Players : (play_calls[th].pc = "send") ~> (play_calls[th].pc = "idle")

C26_Witness ==
    /\ audio_op.op = "play_returned"
    /\ worker_pc = "send"
    /\ ~send_fits(ring_len, chunk_end(offset, Unwrap(worker_data).len) - offset)
    /\ Len(audio_cmd_queue) = 1

\* C27: a source data callback for N bytes that finds the ring buffer empty
\* fills all N bytes with zeros and reports N.
C27_EmptyReadIsSilence ==
    (IsSome(sink_out) /\ Unwrap(sink_out).held = 0) =>
        /\ Unwrap(sink_out).copied = Unwrap(sink_out).n
        /\ Unwrap(sink_out).zeros = Unwrap(sink_out).n
        /\ Unwrap(sink_out).data = 0
        /\ Unwrap(sink_out).untouched = 0

C27_Witness ==
    /\ audio_op.op = "source_data"
    /\ Unwrap(sink_out).held = 0
    /\ Unwrap(sink_out).n = 512
    /\ Unwrap(sink_out).zeros = 512
    /\ ring_len = 0
    /\ worker_pc = "prefill"

\* C28: a source data callback for N bytes that finds k bytes, 0 < k < N,
\* copies the k bytes and fills the other N - k bytes with zeros.
C28_ShortReadPadsSilence ==
    (IsSome(sink_out) /\ 0 < Unwrap(sink_out).held /\ Unwrap(sink_out).held < Unwrap(sink_out).n) =>
        /\ Unwrap(sink_out).data = Unwrap(sink_out).held
        /\ Unwrap(sink_out).zeros = Unwrap(sink_out).n - Unwrap(sink_out).held
        /\ Unwrap(sink_out).untouched = 0

\* ------------------------------------------------- claims on failing actions

\* C29: an action that returns an error leaves the owner loop running in its
\* drain, with its receiver, and changes nothing; the error is what goes into
\* the caller's reply channel, and the loop never stops while its receiver
\* exists, so the events behind the failing one are executed.
C29_FailureKeepsLoopRunning ==
    /\ (bus_op.op = "exec" /\ bus_op.act = "fail") =>
           /\ loop_pc = "drain"
           /\ receiver_alive
           /\ current_game = pre
           /\ (bus_op.caller # 0 /\ ~bus_op.stale) =>
                  callers[bus_op.caller].reply = Some("Err")
    /\ receiver_alive => loop_pc # "gone"

C29_Witness ==
    /\ bus_op.op = "exec"
    /\ Len(executed) = 2
    /\ executed[1].act = "fail"
    /\ executed[2].act = "start"
    /\ bus_op.id = executed[2].id
    /\ callers[executed[1].reply_to].ret = Some("Err")
    /\ current_game.active

\* C30: in the event-driven loop a ButtonPress or EndGame event that arrives
\* while no match is active changes nothing and leaves the loop receiving, so
\* that a StartGame event posted while no match is active starts one.
C30_IgnoredEventKeepsLoop ==
    /\ (last_op.op \in { "ButtonPress", "EndGame" } /\ ~pre.active) =>
           /\ ev_running
           /\ current_game = pre
    /\ (last_op.op = "StartGame" /\ ~pre.active) => current_game.active

\* ------------------------------------------------ further claims on GameState

\* C31: stop() on an active clock owned by a team adds the time since
\* last_tick to that team's duration, leaves the other duration as it was, and
\* leaves the clock inactive with no owner and no last_tick.
C31_StopFlushesThenClears ==
    (last_op.op = "stop" /\ pre.active /\ IsSome(pre.current_team) /\ IsSome(pre.last_tick)) =>
        LET delta == now - Unwrap(pre.last_tick)
        IN  /\ Unwrap(pre.current_team) = Red =>
                   /\ current_game.team_red_time = pre.team_red_time + delta
                   /\ current_game.team_blue_time = pre.team_blue_time
            /\ Unwrap(pre.current_team) = Blue =>
                   /\ current_game.team_blue_time = pre.team_blue_time + delta
                   /\ current_game.team_red_time = pre.team_red_time
            /\ ~current_game.active
            /\ current_game.current_team = None
            /\ current_game.last_tick = None

C31_Witness ==
    /\ last_op.op = "stop"
    /\ pre.active
    /\ pre.current_team = Some(Red)
    /\ pre.team_blue_time > 0
    /\ now > Unwrap(pre.last_tick)
    /\ current_game.team_red_time > pre.team_red_time
    /\ current_game.team_blue_time = pre.team_blue_time

\* C36: in every reachable state last_tick is set exactly when the clock is
\* active, and an owner is set only when it is active.
C36_LastTickIffActive ==
    /\ IsSome(current_game.last_tick) <=> current_game.active
    /\ IsSome(current_game.current_team) => current_game.active

C36_Witness ==
    /\ last_op.op = "stop"
    /\ pre.active
    /\ IsSome(pre.current_team)
    /\ IsSome(pre.last_tick)
    /\ ~current_game.active
    /\ current_game.last_tick = None
    /\ current_game.team_red_time > 0

\* C37 as stated: between two start() calls, once winner() reports a team it
\* reports that same team after every further operation.
C37_WinnerNeverChanges ==
    (last_op.op # "start" /\ IsSome(winner(pre))) => winner(current_game) = winner(pre)

\* C37 amended: between two start() calls, once winner() reports a team it
\* keeps reporting a team; a report of Red is final, and a report of Blue can
\* only be replaced by Red (when Blue's duration reaches the threshold too).
C37_WinnerOnlyTurnsRed ==
    /\ (last_op.op # "start" /\ IsSome(winner(pre))) => IsSome(winner(current_game))
    /\ (last_op.op # "start" /\ winner(pre) = Some(Red)) => winner(current_game) = Some(Red)

C37_Witness ==
    /\ last_op.op \in { "tick", "button_press" }
    /\ winner(pre) = Some(Blue)
    /\ winner(current_game) = Some(Red)

\* C38: a team press handled while no match is active requests no cue: the
\* audio generation and the audio command channel are as they were before it.
C38_CueOnlyWhileActive ==
    (last_op.op = "team_press" /\ ~pre.active) =>
        /\ audio_gen = Unwrap(last_op.ret).gen
        /\ Len(audio_cmd_queue) = Unwrap(last_op.ret).queued

\* ------------------------------------- further claims on the audio pipeline

\* C32: from the worker's flush on, the ring buffer holds no byte written
\* before the command now handled was dequeued, and no source data callback
\* delivers such a byte.
C32_FlushIsHardCut ==
    /\ ring_prev = 0
    /\ IsSome(sink_out) => Unwrap(sink_out).earlier = 0

C32_Witness ==
    /\ audio_op.op = "recv_play"
    /\ worker_issued = 2
    /\ plays_started = 2
    /\ audio_cmd_queue = << >>
    /\ \A th \in Players : play_calls[th].pc = "idle"
    /\ reads_done = 0
    /\ stops_sent = 0
    /\ ring_len = 0

StopsQueued ==
    Cardinality({ i \in 1..Len(audio_cmd_queue) : audio_cmd_queue[i].kind = "Stop" })

C34_WorkerReturnsToQueue == []<>(worker_pc = "recv")

\* ------------------------------------------- further claims on the command bus

\* C35: no action is executed twice and an executed action is no longer
\* queued; the reply of an action goes only to the caller still waiting on the
\* channel made for that submission, carrying what that action returned; and
\* while the owner loop keeps running every enqueued action is executed.
C35_ExecutedOnce ==
    /\ [](/\ Cardinality(Ids(executed)) = Len(executed)
          /\ Ids(executed) \cap Ids(app_queue) = { }
          /\ \A p \in Producers :
                 IsSome(callers[p].reply) =>
                     /\ callers[p].pc = "waiting"
                     /\ \E i \in 1..Len(executed) :
                            /\ executed[i].id = callers[p].id
                            /\ executed[i].reply_to = p
          /\ (bus_op.op = "exec" /\ bus_op.caller # 0 /\ ~bus_op.stale) =>
                 /\ callers[bus_op.caller].id = bus_op.id
                 /\ callers[bus_op.caller].reply =
                        Some(run_action(bus_op.act, pre, now).result))
    /\ \A id \in 1..MaxCalls :
           (id \in Ids(enqueued)) ~> (id \in Ids(executed) \/ ~receiver_alive)

C35_Witness ==
    /\ bus_op.op = "exec"
    /\ bus_op.caller # 0
    /\ ~bus_op.stale
    /\ Len(executed) = 2
    /\ executed[1].reply_to # 0
    /\ executed[1].reply_to # bus_op.caller
    /\ callers[bus_op.caller].reply = Some("Err")
    /\ receiver_alive

\* C39: a command() or query() made on the owner's own thread is never served
\* while it waits: its event stays queued and no reply comes, the call ends
\* with the timeout error, and the action is executed only after that, by a
\* later turn of the drain, its reply going nowhere.
C39_SelfCallTimesOut ==
    /\ [](/\ callers[OwnerThread].pc = "waiting" =>
                 /\ receiver_alive
                 /\ InQueue(app_queue, callers[OwnerThread].id)
                 /\ callers[OwnerThread].id \notin Ids(executed)
                 /\ ~IsSome(callers[OwnerThread].reply)
          /\ callers[OwnerThread].ret \in { None, Some("Timeout") }
          /\ (bus_op.op = "exec" /\ bus_op.caller = OwnerThread) =>
                 /\ bus_op.stale
                 /\ callers[OwnerThread].id # bus_op.id
                 /\ current_game = run_action(bus_op.act, pre, now).game)
    /\ (callers[OwnerThread].pc = "waiting")
           ~> (callers[OwnerThread].pc = "idle"
               /\ callers[OwnerThread].ret = Some("Timeout"))

C39_Witness ==
    /\ bus_op.op = "exec"
    /\ bus_op.caller = OwnerThread
    /\ bus_op.act = "start"
    /\ bus_op.stale
    /\ ~pre.active
    /\ current_game.active
    /\ callers[OwnerThread].pc = "idle"
    /\ callers[OwnerThread].ret = Some("Timeout")

\* ------------------------------------------------------- claims on the button

====
